---------------------------- MODULE Spec2Model ----------------------------
(***************************************************************************)
(* Model of jira-stalebot's stale checker (src/jira-stale-checker.py):     *)
(* the meaningful-update evaluator, the field-name resolver with its       *)
(* cached mapping, the result-set builder with its sort, the range         *)
(* filter, the date parser and main; and of add_label_to_issue             *)
(* (src/jira-add-label.py) run by two processes on one issue.              *)
(*                                                                         *)
(* Data representation                                                     *)
(*   - An ISO-8601 timestamp text is a record [local, zone]: local is the  *)
(*     wall-clock part (in hours, fixed width in the text) and zone the    *)
(*     zone designator that follows it ("Z", "+00:00", "+01:00", ...).     *)
(*   - An aware datetime is a record [local, utcoffset]; two of them       *)
(*     compare by the instant local - utcoffset.                           *)
(*   - Python's None is the empty sequence, a present value v is <<v>>.    *)
(*   - A Python str whose characters matter (field names, relative       *)
(*     dates) is a sequence of one-character strings.                      *)
(*   - datetime.now() and the relative dates computed from it are          *)
(*     calendar datetimes [year, month, day, second] in UTC.               *)
(***************************************************************************)
EXTENDS Integers, Sequences, FiniteSets, TLC

VARIABLES
    issue,                   \* evaluator: the issue handed to _get_last_meaningful_update
    exclude_fields,          \* evaluator: resolved field identifiers to ignore
    exclude_users,           \* evaluator: user names to ignore
    last_meaningful_update,  \* evaluator: None, or the returned ISO text
    field_mapping,           \* checker: self._field_mapping, None or the dict
    fetches,                 \* tracker: calls of jira.fields() so far
    catalog,                 \* tracker: what jira.fields() answered (None before)
    requested,               \* resolver: None, or the names of the last call
    resolved_fields,         \* resolver: the identifiers the last call returned
    invalid_fields,          \* resolver: the names the last call reported
    search,                  \* builder: None, or the issues jira.search_issues() answered
    results,                 \* builder: the list get_issues_with_history returned
    snapshots,               \* filter: the list handed to filter_issues_by_date_range
    since_date,              \* filter: None, or the since bound (aware datetime)
    before_date,             \* filter: None, or the before bound (aware datetime)
    filtered,                \* filter: None, or the returned list
    since_str,               \* date parser: the text handed to parse_since_date
    now,                     \* date parser: what datetime.now(timezone.utc) reads
    parsed,                  \* date parser: None, or the outcome of the call
    args,                    \* main: the parsed command line
    pc,                      \* main: where the run is
    stdout,                  \* main: what has been printed to standard output
    exit_status,             \* main: None while running, then the exit status
    labels,                  \* add-label: the labels of the issue on the tracker
    initial_labels,          \* add-label: the labels the issue had before the runs
    run_label,               \* add-label: per run, the label to add
    label_pc,                \* add-label: per run, where it is
    current_labels           \* add-label: per run, the labels it read

evalVars == <<issue, exclude_fields, exclude_users, last_meaningful_update>>
fieldVars == <<field_mapping, fetches, catalog, requested, resolved_fields, invalid_fields>>
buildVars == <<search, results>>
filterVars == <<snapshots, since_date, before_date, filtered>>
dateVars == <<since_str, now, parsed>>
mainVars == <<args, pc, stdout, exit_status>>
labelVars == <<labels, initial_labels, run_label, label_pc, current_labels>>
cliVars == <<dateVars, mainVars, labelVars>>
vars == <<evalVars, fieldVars, buildVars, filterVars, cliVars>>

None == <<>>
Some(v) == <<v>>

\* x in xs, for a Python list xs
InList(x, xs) == \E i \in 1..Len(xs) : xs[i] = x

\* field names and identifiers used as inputs, spelled out
S_status == <<"s", "t", "a", "t", "u", "s">>
S_customfield_1 == <<"c", "u", "s", "t", "o", "m", "f", "i", "e", "l", "d", "_", "1">>
S_customfield_2 == <<"c", "u", "s", "t", "o", "m", "f", "i", "e", "l", "d", "_", "2">>
S_customfield_3 == <<"c", "u", "s", "t", "o", "m", "f", "i", "e", "l", "d", "_", "3">>
S_issuetype == <<"i", "s", "s", "u", "e", "t", "y", "p", "e">>
S_SP == <<"S", "P">>
S_Sp == <<"S", "p">>
S_Status == <<"S", "t", "a", "t", "u", "s">>
S_STATUS == <<"S", "T", "A", "T", "U", "S">>
S_Issue_Type == <<"I", "s", "s", "u", "e", " ", "T", "y", "p", "e">>
S_customfield_x == <<"c", "u", "s", "t", "o", "m", "f", "i", "e", "l", "d", "_", "x">>
S_customfield_ == <<"c", "u", "s", "t", "o", "m", "f", "i", "e", "l", "d", "_">>
S_Work_Log == <<"W", "o", "r", "k", " ", "L", "o", "g">>
S_bogus == <<"b", "o", "g", "u", "s">>

---------------------------------------------------------------------------
(* Timestamps                                                              *)

\* str.replace('Z', '+00:00') on a timestamp text
ReplaceZ(text) == IF text.zone = "Z" THEN [text EXCEPT !.zone = "+00:00"] ELSE text

\* the UTC offset (hours) a zone designator denotes
UtcOffset(zone) ==
    CASE zone = "+00:00" -> 0
      [] zone = "+01:00" -> 1
      [] zone = "+02:00" -> 2
      [] zone = "-01:00" -> 0 - 1

\* the zone designator isoformat() writes for a UTC offset
ZoneText(utcoffset) ==
    CASE utcoffset = 0 -> "+00:00"
      [] utcoffset = 1 -> "+01:00"
      [] utcoffset = 2 -> "+02:00"
      [] utcoffset = 0 - 1 -> "-01:00"

\* datetime.fromisoformat: the aware datetime a timestamp text denotes
fromisoformat(text) == [local |-> text.local, utcoffset |-> UtcOffset(text.zone)]

\* datetime.isoformat: wall-clock part followed by the offset
isoformat(dt) == [local |-> dt.local, zone |-> ZoneText(dt.utcoffset)]

\* the instant (hours, UTC) of an aware datetime
Instant(dt) == dt.local - dt.utcoffset

---------------------------------------------------------------------------
(* _get_last_meaningful_update                                             *)

\* history.author.name if hasattr(history.author, 'name') else str(history.author)
ChangeAuthor(author) == IF author.hasName THEN author.name ELSE author.str

\* mutant: the author test never skips an entry
AuthorNeverExcluded(change_author, users) == FALSE

\* change_author in exclude_users
AuthorExcluded(change_author, users) == InList(change_author, users)

\* mutant: every entry counts as a meaningful change
AnyEntryMeaningful(items, fields) == TRUE

\* the loop over history.items: has_meaningful_change
HasMeaningfulChange(items, fields) ==
    \E k \in 1..Len(items) : ~InList(items[k].field, fields)

\* mutant: the last qualifying entry always replaces the running result
AlwaysLater(history_date, last_update) == TRUE

\* history_date > last_update on aware datetimes
IsLater(history_date, last_update) == Instant(history_date) > Instant(last_update)

\* mutant: the running result never advances
KeepLastUpdate(history, last_update, fields, users) == last_update

\* one iteration of the loop over issue.changelog.histories
ScanHistory(history, last_update, fields, users) ==
    IF AuthorExcluded(ChangeAuthor(history.author), users)
    THEN last_update
    ELSE IF HasMeaningfulChange(history.items, fields)
         THEN LET history_date == fromisoformat(ReplaceZ(history.created))
              IN  IF IsLater(history_date, last_update)
                  THEN history_date
                  ELSE last_update
         ELSE last_update

RECURSIVE ScanHistories(_, _, _, _, _)
ScanHistories(histories, i, last_update, fields, users) ==
    IF i > Len(histories)
    THEN last_update
    ELSE ScanHistories(histories, i + 1,
                       ScanHistory(histories[i], last_update, fields, users),
                       fields, users)

GetLastMeaningfulUpdate(iss, fields, users) ==
    LET baseline == fromisoformat(ReplaceZ(iss.created))
        last_update ==
            IF iss.changelog # None
            THEN ScanHistories(iss.changelog[1].histories, 1, baseline, fields, users)
            ELSE baseline
    IN  isoformat(last_update)

---------------------------------------------------------------------------
(* Inputs of the evaluator                                                 *)

MaxHist == 2

\* history timestamps: instants 1, 2, 2 (another zone) and 3
Timestamps ==
    { [local |-> 1, zone |-> "Z"],
      [local |-> 2, zone |-> "+00:00"],
      [local |-> 3, zone |-> "+01:00"],
      [local |-> 4, zone |-> "+01:00"] }

\* creation timestamps: instants 1 and 2
CreatedTimestamps ==
    { [local |-> 1, zone |-> "Z"],
      [local |-> 3, zone |-> "+01:00"] }

Authors ==
    { [hasName |-> TRUE,  name |-> "alice", str |-> "<User alice>"],
      [hasName |-> FALSE, name |-> "",      str |-> "bot"] }

ItemLists ==
    { <<>>,
      <<[field |-> S_customfield_1]>>,
      <<[field |-> S_customfield_1], [field |-> S_status]>> }

Histories == [author : Authors, created : Timestamps, items : ItemLists]

SeqsUpTo(S, n) == UNION { [1..k -> S] : k \in 0..n }

EvalIssues ==
    { [key |-> "PROJ-1", created |-> c, changelog |-> cl] :
        c \in CreatedTimestamps,
        cl \in {None} \cup { Some([histories |-> hs]) : hs \in SeqsUpTo(Histories, MaxHist) } }

ExcludeFieldLists == { <<>>, <<S_customfield_1>> }
ExcludeUserLists  == { <<>>, <<"bot">> }

\* a checker just constructed: no mapping cached, nothing asked of it
InitChecker ==
    /\ field_mapping = None
    /\ fetches = 0
    /\ catalog = None
    /\ requested = None
    /\ resolved_fields = <<>>
    /\ invalid_fields = <<>>
    /\ search = None
    /\ results = <<>>

\* no call of _get_last_meaningful_update on its own
InitNoEval ==
    /\ issue = [key |-> "PROJ-1", created |-> [local |-> 1, zone |-> "Z"], changelog |-> None]
    /\ exclude_fields = <<>>
    /\ exclude_users = <<>>
    /\ last_meaningful_update = None

\* no call of filter_issues_by_date_range
InitNoFilter ==
    /\ snapshots = <<>>
    /\ since_date = None
    /\ before_date = None
    /\ filtered = None

\* no call of parse_since_date on its own
InitNoDate ==
    /\ since_str = [kind |-> "words", chars |-> <<>>]
    /\ now = [year |-> 2024, month |-> 1, day |-> 1, second |-> 0]
    /\ parsed = None

\* main of jira-stale-checker.py not started
InitNoMain ==
    /\ args = [url_token |-> FALSE, list_fields |-> FALSE, since |-> None,
               before |-> None, format |-> "table"]
    /\ pc = "idle"
    /\ stdout = <<>>
    /\ exit_status = None

\* no run of jira-add-label.py
InitNoLabel ==
    /\ labels = <<>>
    /\ initial_labels = <<>>
    /\ run_label = <<>>
    /\ label_pc = <<>>
    /\ current_labels = <<>>

InitNoCli == InitNoDate /\ InitNoMain /\ InitNoLabel

InitEval ==
    /\ issue \in EvalIssues
    /\ exclude_fields = <<>>
    /\ exclude_users = <<>>
    /\ last_meaningful_update = None
    /\ InitChecker
    /\ InitNoFilter
    /\ InitNoCli

\* a call of _get_last_meaningful_update(issue, exclude_fields, exclude_users)
CallGetLastMeaningfulUpdate ==
    /\ last_meaningful_update = None
    /\ \E fields \in ExcludeFieldLists, users \in ExcludeUserLists :
          /\ exclude_fields' = fields
          /\ exclude_users' = users
          /\ last_meaningful_update' = Some(GetLastMeaningfulUpdate(issue, fields, users))
    /\ UNCHANGED <<issue, fieldVars, buildVars, filterVars, cliVars>>

NextEval == CallGetLastMeaningfulUpdate

SpecEval == InitEval /\ [][NextEval]_vars

---------------------------------------------------------------------------
(* Field names: Python str values as sequences of characters               *)

\* str.lower() on one character
LowerChar(c) ==
    CASE c = "A" -> "a"
      [] c = "B" -> "b"
      [] c = "C" -> "c"
      [] c = "D" -> "d"
      [] c = "E" -> "e"
      [] c = "F" -> "f"
      [] c = "G" -> "g"
      [] c = "H" -> "h"
      [] c = "I" -> "i"
      [] c = "J" -> "j"
      [] c = "K" -> "k"
      [] c = "L" -> "l"
      [] c = "M" -> "m"
      [] c = "N" -> "n"
      [] c = "O" -> "o"
      [] c = "P" -> "p"
      [] c = "Q" -> "q"
      [] c = "R" -> "r"
      [] c = "S" -> "s"
      [] c = "T" -> "t"
      [] c = "U" -> "u"
      [] c = "V" -> "v"
      [] c = "W" -> "w"
      [] c = "X" -> "x"
      [] c = "Y" -> "y"
      [] c = "Z" -> "z"
      [] OTHER -> c

\* str.lower()
Lower(str) == [i \in 1..Len(str) |-> LowerChar(str[i])]

\* str.startswith(prefix)
StartsWith(str, prefix) ==
    Len(str) >= Len(prefix) /\ SubSeq(str, 1, Len(prefix)) = prefix

\* 'customfield_'
CustomFieldPrefix == <<"c", "u", "s", "t", "o", "m", "f", "i", "e", "l", "d", "_">>

\* the standard_fields dict of _resolve_field_identifiers, as (key, value) pairs
StandardFields ==
    { <<<<"s", "u", "m", "m", "a", "r", "y">>, <<"s", "u", "m", "m", "a", "r", "y">>>>,
      <<<<"d", "e", "s", "c", "r", "i", "p", "t", "i", "o", "n">>, <<"d", "e", "s", "c", "r", "i", "p", "t", "i", "o", "n">>>>,
      <<<<"s", "t", "a", "t", "u", "s">>, <<"s", "t", "a", "t", "u", "s">>>>,
      <<<<"a", "s", "s", "i", "g", "n", "e", "e">>, <<"a", "s", "s", "i", "g", "n", "e", "e">>>>,
      <<<<"r", "e", "p", "o", "r", "t", "e", "r">>, <<"r", "e", "p", "o", "r", "t", "e", "r">>>>,
      <<<<"p", "r", "i", "o", "r", "i", "t", "y">>, <<"p", "r", "i", "o", "r", "i", "t", "y">>>>,
      <<<<"r", "e", "s", "o", "l", "u", "t", "i", "o", "n">>, <<"r", "e", "s", "o", "l", "u", "t", "i", "o", "n">>>>,
      <<<<"l", "a", "b", "e", "l", "s">>, <<"l", "a", "b", "e", "l", "s">>>>,
      <<<<"c", "o", "m", "m", "e", "n", "t">>, <<"c", "o", "m", "m", "e", "n", "t">>>>,
      <<<<"a", "t", "t", "a", "c", "h", "m", "e", "n", "t">>, <<"a", "t", "t", "a", "c", "h", "m", "e", "n", "t">>>>,
      <<<<"w", "o", "r", "k", "l", "o", "g">>, <<"w", "o", "r", "k", "l", "o", "g">>>>,
      <<<<"w", "o", "r", "k", " ", "l", "o", "g">>, <<"w", "o", "r", "k", "l", "o", "g">>>>,
      <<<<"l", "i", "n", "k">>, <<"i", "s", "s", "u", "e", "l", "i", "n", "k", "s">>>> }

\* key in standard_fields
InStandardFields(key) == \E kv \in StandardFields : kv[1] = key

\* standard_fields[key]
StandardField(key) == (CHOOSE kv \in StandardFields : kv[1] = key)[2]

---------------------------------------------------------------------------
(* _get_field_mapping                                                      *)

\* the empty dict
EmptyDict == [k \in {} |-> <<>>]

\* d[key] = value
DictPut(d, key, value) ==
    [k \in DOMAIN d \cup {key} |-> IF k = key THEN value ELSE d[k]]

\* mutant: the lowercased name is not mapped
MapFieldNoLower(mapping, field) ==
    LET m1 == DictPut(mapping, field.name, field.id)
    IN  IF StartsWith(field.id, CustomFieldPrefix)
        THEN DictPut(m1, field.id, field.id)
        ELSE m1

\* the body of the loop over the fields of the catalog
MapField(mapping, field) ==
    LET m1 == DictPut(mapping, field.name, field.id)
        m2 == DictPut(m1, Lower(field.name), field.id)
    IN  IF StartsWith(field.id, CustomFieldPrefix)
        THEN DictPut(m2, field.id, field.id)
        ELSE m2

RECURSIVE MapFields(_, _, _)
MapFields(fields, i, mapping) ==
    IF i > Len(fields)
    THEN mapping
    ELSE MapFields(fields, i + 1, MapField(mapping, fields[i]))

\* mutant: the except clause does not reset the mapping
FetchedMappingKeepsPartial(answer) == MapFields(answer.fields, 1, EmptyDict)

\* the mapping the try/except leaves in self._field_mapping. The answer of
\* jira.fields() is [ok |-> TRUE, fields |-> the catalog], or, when the try
\* block raises, [ok |-> FALSE, fields |-> the fields mapped before it raised]
FetchedMapping(answer) ==
    IF answer.ok THEN MapFields(answer.fields, 1, EmptyDict) ELSE EmptyDict

---------------------------------------------------------------------------
(* _resolve_field_identifiers                                              *)

\* mutant: the case-insensitive match is tried before the exact match
ResolveFieldLowerFirst(field, mapping) ==
    IF Lower(field) \in DOMAIN mapping THEN Some(mapping[Lower(field)])
    ELSE IF field \in DOMAIN mapping THEN Some(mapping[field])
    ELSE IF StartsWith(field, CustomFieldPrefix) THEN Some(field)
    ELSE IF InStandardFields(Lower(field)) THEN Some(StandardField(Lower(field)))
    ELSE None

\* the if/elif chain for one name: the identifier appended to resolved_fields,
\* or None when the name goes to invalid_fields
ResolveField(field, mapping) ==
    IF field \in DOMAIN mapping THEN Some(mapping[field])
    ELSE IF Lower(field) \in DOMAIN mapping THEN Some(mapping[Lower(field)])
    ELSE IF StartsWith(field, CustomFieldPrefix) THEN Some(field)
    ELSE IF InStandardFields(Lower(field)) THEN Some(StandardField(Lower(field)))
    ELSE None

RECURSIVE ResolveLoop(_, _, _, _, _)
ResolveLoop(names, i, mapping, resolved, invalid) ==
    IF i > Len(names)
    THEN [resolved |-> resolved, invalid |-> invalid]
    ELSE LET r == ResolveField(names[i], mapping)
         IN  IF r # None
             THEN ResolveLoop(names, i + 1, mapping, Append(resolved, r[1]), invalid)
             ELSE ResolveLoop(names, i + 1, mapping, resolved, Append(invalid, names[i]))

\* _resolve_field_identifiers on a mapping already fetched
ResolveFieldIdentifiers(names, mapping) == ResolveLoop(names, 1, mapping, <<>>, <<>>)

---------------------------------------------------------------------------
(* Inputs of the resolver                                                  *)

MaxCatalog == 2
MaxNames == 2

\* fields the tracker may define
CatalogFields ==
    { [id |-> S_customfield_1, name |-> S_SP],
      [id |-> S_customfield_2, name |-> S_Sp],
      [id |-> S_customfield_3, name |-> S_customfield_1],
      [id |-> S_status, name |-> S_Status],
      [id |-> S_issuetype, name |-> S_Issue_Type] }

\* field lists without a repeated field
DistinctSeqs(S, n) ==
    { s \in SeqsUpTo(S, n) : \A i, j \in 1..Len(s) : s[i] = s[j] => i = j }

\* what jira.fields() may answer
FieldsAnswers ==
    { [ok |-> TRUE, fields |-> fs] : fs \in DistinctSeqs(CatalogFields, MaxCatalog) }
    \cup { [ok |-> FALSE, fields |-> fs] : fs \in DistinctSeqs(CatalogFields, 1) }

\* names a caller may pass with --exclude-field
RequestedNames ==
    { S_SP,
      S_STATUS,
      S_customfield_1,
      S_customfield_x,
      S_customfield_,
      S_Work_Log,
      S_bogus }

InitFields == InitNoEval /\ InitChecker /\ InitNoFilter /\ InitNoCli

\* mutant: the cache test is the truth value of the mapping (an empty dict
\* counts as not cached)
IsCachedWhenNonEmpty(mapping) == mapping # None /\ mapping[1] # EmptyDict

\* self._field_mapping is not None
IsCached(mapping) == mapping # None

\* _get_field_mapping, first call: fetch the catalog and build the mapping
FetchFieldMapping(answers) ==
    /\ ~IsCached(field_mapping)
    /\ \E answer \in answers :
          /\ catalog' = Some(answer)
          /\ field_mapping' = Some(FetchedMapping(answer))
    /\ fetches' = fetches + 1

\* _get_field_mapping, later calls: the cached mapping is returned
CachedFieldMapping ==
    /\ IsCached(field_mapping)
    /\ UNCHANGED <<field_mapping, catalog, fetches>>

\* self._get_field_mapping()
GetFieldMapping(answers) == FetchFieldMapping(answers) \/ CachedFieldMapping

\* a call of _get_field_mapping() on its own (--list-fields)
CallGetFieldMapping ==
    /\ GetFieldMapping(FieldsAnswers)
    /\ UNCHANGED <<requested, resolved_fields, invalid_fields, evalVars, buildVars, filterVars, cliVars>>

\* the call of _resolve_field_identifiers(names) a run makes (one per run, from
\* get_issues_with_history)
CallResolveFieldIdentifiers ==
    /\ requested = None
    /\ GetFieldMapping(FieldsAnswers)
    /\ \E names \in SeqsUpTo(RequestedNames, MaxNames) :
          LET out == ResolveFieldIdentifiers(names, field_mapping'[1])
          IN  /\ requested' = Some(names)
              /\ resolved_fields' = out.resolved
              /\ invalid_fields' = out.invalid
    /\ UNCHANGED <<evalVars, buildVars, filterVars, cliVars>>

NextFields == CallGetFieldMapping \/ CallResolveFieldIdentifiers

SpecFields == InitFields /\ [][NextFields]_vars

---------------------------------------------------------------------------
(* get_issues_with_history                                                 *)

\* the dict appended to results for one issue (the fields copied unchanged
\* from the issue are represented by key and created)
Snapshot(iss, fields, users) ==
    [key |-> iss.key,
     created |-> iss.created,
     last_meaningful_update |-> GetLastMeaningfulUpdate(iss, fields, users)]

\* the loop over the issues of the search
SnapshotsOf(issues, fields, users) ==
    [i \in 1..Len(issues) |-> Snapshot(issues[i], fields, users)]

\* the place of a zone designator in the order of Python str comparison
\* ('+' sorts before '-', then the digits)
ZoneRank(zone) ==
    CASE zone = "+00:00" -> 0
      [] zone = "+01:00" -> 1
      [] zone = "+02:00" -> 2
      [] zone = "-01:00" -> 3

\* a < b on two isoformat() texts: character by character, that is the
\* wall-clock part first and the zone designator after it
TextLess(a, b) ==
    \/ a.local < b.local
    \/ a.local = b.local /\ ZoneRank(a.zone) < ZoneRank(b.zone)

\* the sort key: lambda x: x['last_meaningful_update']
SortKey(x) == x.last_meaningful_update

\* one element placed into a list already in descending key order, behind the
\* elements whose key is not less than its own
InsertDescending(sorted, x) ==
    LET ahead == Cardinality({ i \in 1..Len(sorted) : ~TextLess(SortKey(sorted[i]), SortKey(x)) })
    IN  SubSeq(sorted, 1, ahead) \o <<x>> \o SubSeq(sorted, ahead + 1, Len(sorted))

RECURSIVE SortFrom(_, _, _)
SortFrom(xs, i, sorted) ==
    IF i > Len(xs) THEN sorted ELSE SortFrom(xs, i + 1, InsertDescending(sorted, xs[i]))

\* results.sort(key=..., reverse=True): descending, equal keys keep their order
SortDescending(xs) == SortFrom(xs, 1, <<>>)

MaxIssues == 3

\* issues a search may return
SearchIssues ==
    { [key |-> "A", created |-> [local |-> 1, zone |-> "Z"], changelog |-> None],
      [key |-> "B", created |-> [local |-> 1, zone |-> "+00:00"],
       changelog |-> Some([histories |-> <<>>])],
      [key |-> "C", created |-> [local |-> 2, zone |-> "+01:00"], changelog |-> None],
      [key |-> "D", created |-> [local |-> 2, zone |-> "+00:00"], changelog |-> None],
      [key |-> "E", created |-> [local |-> 1, zone |-> "Z"],
       changelog |-> Some([histories |->
           <<[author |-> [hasName |-> TRUE, name |-> "alice", str |-> "<User alice>"],
              created |-> [local |-> 4, zone |-> "+01:00"],
              items |-> <<[field |-> S_customfield_1]>>]>>])] }

\* what jira.search_issues() may answer
SearchAnswers == DistinctSeqs(SearchIssues, MaxIssues)

\* what jira.fields() may answer to the builder
BuildFieldsAnswers ==
    { [ok |-> TRUE, fields |-> <<[id |-> S_customfield_1, name |-> S_SP]>>],
      [ok |-> FALSE, fields |-> <<>>],
      [ok |-> FALSE, fields |-> <<[id |-> S_customfield_1, name |-> S_SP]>>] }

\* the --exclude-field lists of the builder
BuildExcludeFields ==
    { <<>>, <<S_SP>>, <<S_customfield_1>>, <<S_STATUS, S_bogus>> }

InitBuild == InitNoEval /\ InitChecker /\ InitNoFilter /\ InitNoCli

\* a call of get_issues_with_history(jql, exclude_fields, exclude_users)
CallGetIssuesWithHistory ==
    /\ search = None
    /\ requested = None
    /\ GetFieldMapping(BuildFieldsAnswers)
    /\ \E names \in BuildExcludeFields, users \in ExcludeUserLists, issues \in SearchAnswers :
          LET out == ResolveFieldIdentifiers(names, field_mapping'[1])
          IN  /\ requested' = Some(names)
              /\ resolved_fields' = out.resolved
              /\ invalid_fields' = out.invalid
              /\ exclude_fields' = out.resolved
              /\ exclude_users' = users
              /\ search' = Some(issues)
              /\ results' = SortDescending(SnapshotsOf(issues, out.resolved, users))
    /\ UNCHANGED <<issue, last_meaningful_update, filterVars, cliVars>>

NextBuild == CallGetIssuesWithHistory

SpecBuild == InitBuild /\ [][NextBuild]_vars

---------------------------------------------------------------------------
(* filter_issues_by_date_range                                             *)

\* mutant: the since bound is exclusive
NotAfterSince(issue_last_update, since) == Instant(issue_last_update) <= Instant(since)

\* issue_last_update < since_date
BeforeSince(issue_last_update, since) == Instant(issue_last_update) < Instant(since)

\* issue_last_update > before_date
AfterBefore(issue_last_update, before) == Instant(issue_last_update) > Instant(before)

\* include_issue at the end of one iteration of the loop
IncludeIssue(snapshot, since, before) ==
    LET issue_last_update == fromisoformat(snapshot.last_meaningful_update)
    IN  /\ ~(since # None /\ BeforeSince(issue_last_update, since[1]))
        /\ ~(before # None /\ AfterBefore(issue_last_update, before[1]))

RECURSIVE FilterLoop(_, _, _, _, _)
FilterLoop(issues, i, since, before, filtered_issues) ==
    IF i > Len(issues)
    THEN filtered_issues
    ELSE FilterLoop(issues, i + 1, since, before,
                    IF IncludeIssue(issues[i], since, before)
                    THEN Append(filtered_issues, issues[i])
                    ELSE filtered_issues)

\* mutant: a kept issue is put in front of filtered_issues
FilterPrepending(issues, since, before) ==
    IF since = None /\ before = None
    THEN issues
    ELSE LET kept == FilterLoop(issues, 1, since, before, <<>>)
         IN  [i \in 1..Len(kept) |-> kept[Len(kept) + 1 - i]]

FilterIssuesByDateRange(issues, since, before) ==
    IF since = None /\ before = None
    THEN issues
    ELSE FilterLoop(issues, 1, since, before, <<>>)

MaxSnapshots == 3

\* last_meaningful_update texts of the snapshots: instants 1, 2, 2 and 3
SnapshotTexts ==
    { [local |-> 1, zone |-> "+00:00"],
      [local |-> 2, zone |-> "+00:00"],
      [local |-> 3, zone |-> "+01:00"],
      [local |-> 4, zone |-> "+01:00"] }

\* lists of snapshots, the i-th with key i
SnapshotLists ==
    { [i \in 1..Len(texts) |-> [key |-> i, last_meaningful_update |-> texts[i]]] :
        texts \in SeqsUpTo(SnapshotTexts, MaxSnapshots) }

\* the since and before arguments: absent, or an aware datetime (instants 2, 2, 3)
DateBounds ==
    { None,
      Some([local |-> 2, utcoffset |-> 0]),
      Some([local |-> 3, utcoffset |-> 1]),
      Some([local |-> 3, utcoffset |-> 0]) }

InitFilter ==
    /\ InitNoEval
    /\ InitChecker
    /\ InitNoCli
    /\ snapshots \in SnapshotLists
    /\ since_date = None
    /\ before_date = None
    /\ filtered = None

\* a call of filter_issues_by_date_range(snapshots, since, before)
CallFilterIssuesByDateRange ==
    /\ filtered = None
    /\ \E since \in DateBounds, before \in DateBounds :
          /\ since_date' = since
          /\ before_date' = before
          /\ filtered' = Some(FilterIssuesByDateRange(snapshots, since, before))
    /\ UNCHANGED <<snapshots, evalVars, fieldVars, buildVars, cliVars>>

NextFilter == CallFilterIssuesByDateRange

SpecFilter == InitFilter /\ [][NextFilter]_vars

---------------------------------------------------------------------------
(* parse_since_date                                                        *)

\* The text handed to parse_since_date is [kind |-> "iso", local, zone] when
\* it is an ISO 8601 text (local and zone as in every timestamp text above,
\* zone "" when the text names no offset) and [kind |-> "words", chars] for
\* any other text, given by its characters. datetime.now(timezone.utc) and the
\* datetimes computed from it are calendar datetimes in UTC,
\* [year, month, day, second], second counted from midnight.

S_second == <<"s", "e", "c", "o", "n", "d">>
S_minute == <<"m", "i", "n", "u", "t", "e">>
S_hour == <<"h", "o", "u", "r">>
S_day == <<"d", "a", "y">>
S_week == <<"w", "e", "e", "k">>
S_month == <<"m", "o", "n", "t", "h">>
S_year == <<"y", "e", "a", "r">>
S_ago == <<"a", "g", "o">>
S_a == <<"a">>
S_an == <<"a", "n">>
S_Jan_15_2024 == <<"J", "a", "n", " ", "1", "5", " ", "2", "0", "2", "4">>

\* datetime.MINYEAR
MINYEAR == 1

Whitespace == {" "}

DigitChars == <<"0", "1", "2", "3", "4", "5", "6", "7", "8", "9">>

\* the characters \d matches
Digits == { DigitChars[i] : i \in 1..Len(DigitChars) }

\* str.strip()
Strip(str) ==
    LET keep == { i \in 1..Len(str) : str[i] \notin Whitespace }
    IN  IF keep = {}
        THEN <<>>
        ELSE SubSeq(str, CHOOSE i \in keep : \A j \in keep : i <= j,
                         CHOOSE i \in keep : \A j \in keep : i >= j)

RECURSIVE SplitLoop(_, _, _, _)
SplitLoop(str, i, word, words) ==
    IF i > Len(str)
    THEN IF word = <<>> THEN words ELSE Append(words, word)
    ELSE IF str[i] \in Whitespace
         THEN SplitLoop(str, i + 1, <<>>, IF word = <<>> THEN words ELSE Append(words, word))
         ELSE SplitLoop(str, i + 1, Append(word, str[i]), words)

\* the maximal runs of characters other than whitespace (what \s+ separates)
Words(str) == SplitLoop(str, 1, <<>>, <<>>)

\* second|minute|hour|day|week|month|year
UnitNames == <<S_second, S_minute, S_hour, S_day, S_week, S_month, S_year>>

IsUnitName(word) == \E i \in 1..Len(UnitNames) : UnitNames[i] = word

\* ^ and $ around words separated by \s+: no whitespace at either end
Anchored(str) ==
    str # <<>> /\ str[1] \notin Whitespace /\ str[Len(str)] \notin Whitespace

\* re.match(r'^(\d+)\s+(second|minute|hour|day|week|month|year)s?\s+ago$', str):
\* None, or the two groups
MatchAmountUnitAgo(str) ==
    LET w == Words(str)
    IN  IF /\ Anchored(str)
           /\ Len(w) = 3
           /\ \A i \in 1..Len(w[1]) : w[1][i] \in Digits
           /\ \/ IsUnitName(w[2])
              \/ /\ w[2][Len(w[2])] = "s"
                 /\ IsUnitName(SubSeq(w[2], 1, Len(w[2]) - 1))
           /\ w[3] = S_ago
        THEN Some([amount |-> w[1],
                   unit |-> IF IsUnitName(w[2]) THEN w[2]
                            ELSE SubSeq(w[2], 1, Len(w[2]) - 1)])
        ELSE None

\* re.match(r'^(a|an)\s+(second|minute|hour|day|week|month|year)\s+ago$', str)
MatchAUnitAgo(str) ==
    LET w == Words(str)
    IN  IF /\ Anchored(str)
           /\ Len(w) = 3
           /\ w[1] \in {S_a, S_an}
           /\ IsUnitName(w[2])
           /\ w[3] = S_ago
        THEN Some([amount |-> w[1], unit |-> w[2]])
        ELSE None

RECURSIVE IntLoop(_, _, _)
IntLoop(str, i, value) ==
    IF i > Len(str)
    THEN value
    ELSE IntLoop(str, i + 1,
                 value * 10 + (CHOOSE d \in 1..Len(DigitChars) : DigitChars[d] = str[i]) - 1)

\* int(match.group(1))
int(str) == IntLoop(str, 1, 0)

\* mutant: weeks=amount counts the amount as days
RelativeDeltaWeekAsDay(unit, amount) ==
    IF StartsWith(unit, S_second)
    THEN Some([years |-> 0, months |-> 0, days |-> amount \div 86400, seconds |-> amount % 86400])
    ELSE IF StartsWith(unit, S_minute)
    THEN Some([years |-> 0, months |-> 0, days |-> amount \div 1440, seconds |-> (amount % 1440) * 60])
    ELSE IF StartsWith(unit, S_hour)
    THEN Some([years |-> 0, months |-> 0, days |-> amount \div 24, seconds |-> (amount % 24) * 3600])
    ELSE IF StartsWith(unit, S_day)
    THEN Some([years |-> 0, months |-> 0, days |-> amount, seconds |-> 0])
    ELSE IF StartsWith(unit, S_week)
    THEN Some([years |-> 0, months |-> 0, days |-> amount, seconds |-> 0])
    ELSE IF StartsWith(unit, S_month)
    THEN Some([years |-> amount \div 12, months |-> amount % 12, days |-> 0, seconds |-> 0])
    ELSE IF StartsWith(unit, S_year)
    THEN Some([years |-> amount, months |-> 0, days |-> 0, seconds |-> 0])
    ELSE None

\* the if/elif chain on unit: relativedelta(<unit>s=amount) as relativedelta
\* normalises it (whole years, months below 12, whole days, and the rest of a
\* day in seconds; a week is 7 days), None for the final else
RelativeDelta(unit, amount) ==
    IF StartsWith(unit, S_second)
    THEN Some([years |-> 0, months |-> 0, days |-> amount \div 86400, seconds |-> amount % 86400])
    ELSE IF StartsWith(unit, S_minute)
    THEN Some([years |-> 0, months |-> 0, days |-> amount \div 1440, seconds |-> (amount % 1440) * 60])
    ELSE IF StartsWith(unit, S_hour)
    THEN Some([years |-> 0, months |-> 0, days |-> amount \div 24, seconds |-> (amount % 24) * 3600])
    ELSE IF StartsWith(unit, S_day)
    THEN Some([years |-> 0, months |-> 0, days |-> amount, seconds |-> 0])
    ELSE IF StartsWith(unit, S_week)
    THEN Some([years |-> 0, months |-> 0, days |-> amount * 7, seconds |-> 0])
    ELSE IF StartsWith(unit, S_month)
    THEN Some([years |-> amount \div 12, months |-> amount % 12, days |-> 0, seconds |-> 0])
    ELSE IF StartsWith(unit, S_year)
    THEN Some([years |-> amount, months |-> 0, days |-> 0, seconds |-> 0])
    ELSE None

IsLeap(year) == year % 4 = 0 /\ (year % 100 # 0 \/ year % 400 = 0)

DaysInMonth(year, month) ==
    IF month = 2 THEN (IF IsLeap(year) THEN 29 ELSE 28)
    ELSE IF month \in {4, 6, 9, 11} THEN 30
    ELSE 31

\* days before January 1st of the year, counted from 0001-01-01
DaysBeforeYear(year) ==
    LET y == year - 1
    IN  y * 365 + y \div 4 - y \div 100 + y \div 400

RECURSIVE DaysBeforeMonth(_, _)
DaysBeforeMonth(year, month) ==
    IF month = 1 THEN 0
    ELSE DaysBeforeMonth(year, month - 1) + DaysInMonth(year, month - 1)

\* date.toordinal(): 0001-01-01 is day 1
toordinal(dt) == DaysBeforeYear(dt.year) + DaysBeforeMonth(dt.year, dt.month) + dt.day

\* date.fromordinal()
fromordinal(ordinal) ==
    LET n0 == ordinal - 1
        n400 == n0 \div 146097
        r400 == n0 % 146097
        n100 == r400 \div 36524
        r100 == r400 % 36524
        n4 == r100 \div 1461
        r4 == r100 % 1461
        n1 == r4 \div 365
        n == r4 % 365
        year == n400 * 400 + n100 * 100 + n4 * 4 + n1 + 1
    IN  IF n1 = 4 \/ n100 = 4
        THEN [year |-> year - 1, month |-> 12, day |-> 31]
        ELSE LET month == CHOOSE m \in 1..12 :
                              /\ DaysBeforeMonth(year, m) <= n
                              /\ n < DaysBeforeMonth(year, m) + DaysInMonth(year, m)
             IN  [year |-> year, month |-> month, day |-> n - DaysBeforeMonth(year, month) + 1]

ValueError == [ok |-> FALSE, error |-> "ValueError"]
OverflowError == [ok |-> FALSE, error |-> "OverflowError"]
Returned(value) == [ok |-> TRUE, value |-> value]

\* dt - delta (relativedelta.__rsub__): years and months are taken off the
\* calendar fields and the day is clipped to the length of the month, then the
\* days and seconds are taken off; a year before MINYEAR raises ValueError and
\* a date before 0001-01-01 raises OverflowError
SubtractDelta(dt, delta) ==
    LET months == dt.year * 12 + (dt.month - 1) - (delta.years * 12 + delta.months)
        year == IF months < 0 THEN 0 - 1 ELSE months \div 12
        month == IF months < 0 THEN 1 ELSE (months % 12) + 1
    IN  IF year < MINYEAR
        THEN ValueError
        ELSE LET last == DaysInMonth(year, month)
                 day == IF dt.day < last THEN dt.day ELSE last
                 s == dt.second - delta.seconds
                 borrow == IF s < 0 THEN 1 ELSE 0
                 ordinal == toordinal([year |-> year, month |-> month, day |-> day])
                                - delta.days - borrow
             IN  IF ordinal < 1
                 THEN OverflowError
                 ELSE LET d == fromordinal(ordinal)
                      IN  Returned([year |-> d.year, month |-> d.month, day |-> d.day,
                                    second |-> s + borrow * 86400])

\* date_parser.parse on the words of the inputs: the datetime it reads, None
\* when it raises
DateutilParse(chars) ==
    IF chars = S_Jan_15_2024
    THEN Some([year |-> 2024, month |-> 1, day |-> 15, second |-> 0])
    ELSE None

\* parse_since_date(since_str), with the clock reading of line 290
ParseSinceDate(text, clock) ==
    IF text.kind = "iso"
    THEN IF text.zone = ""
         THEN Returned([local |-> text.local, utcoffset |-> 0])
         ELSE Returned(fromisoformat(text))
    ELSE IF text.chars = <<>>
    THEN ValueError
    ELSE LET since_str_lower == Strip(Lower(text.chars))
             numeric == MatchAmountUnitAgo(since_str_lower)
             article == MatchAUnitAgo(since_str_lower)
             match == IF numeric # None THEN numeric ELSE article
         IN  IF match # None
             THEN LET amount == IF match[1].amount \in {S_a, S_an}
                                THEN 1
                                ELSE int(match[1].amount)
                      delta == RelativeDelta(match[1].unit, amount)
                  IN  IF delta = None THEN ValueError ELSE SubtractDelta(clock, delta[1])
             ELSE LET parsed_date == DateutilParse(text.chars)
                  IN  IF parsed_date = None THEN ValueError ELSE Returned(parsed_date[1])

---------------------------------------------------------------------------
(* Inputs of the date parser                                               *)

MaxAmount == 2

\* an amount far enough back to leave the range of datetime for some units
FarAmount == 1000000

\* the upper-case letter str.lower() turns into c, c itself when there is none
UpperChar(c) ==
    LET letters == {"A", "B", "C", "D", "E", "F", "G", "H", "I", "J", "K", "L", "M",
                    "N", "O", "P", "Q", "R", "S", "T", "U", "V", "W", "X", "Y", "Z"}
    IN  IF \E u \in letters : LowerChar(u) = c /\ u # c
        THEN CHOOSE u \in letters : LowerChar(u) = c
        ELSE c

\* a text written in lower case, in upper case, or with a capital first letter
LetterCase(case, str) ==
    CASE case = "lower" -> str
      [] case = "upper" -> [i \in 1..Len(str) |-> UpperChar(str[i])]
      [] case = "capitalized" ->
             [i \in 1..Len(str) |-> IF i = 1 THEN UpperChar(str[i]) ELSE str[i]]

RECURSIVE Decimal(_)
Decimal(n) ==
    IF n < 10 THEN <<DigitChars[n + 1]>>
    ELSE Decimal(n \div 10) \o <<DigitChars[(n % 10) + 1]>>

\* a text in a letter case, with or without whitespace around it
Written(lead, case, str, trail) == lead \o LetterCase(case, str) \o trail

\* "<amount> <unit>[s] ago", with the amount and the unit it names
NumericTexts ==
    { [chars |-> Written(lead, case,
                         Decimal(n) \o <<" ">> \o UnitNames[u] \o plural \o <<" ">> \o S_ago,
                         trail),
       amount |-> n, unit |-> u] :
        lead \in {<<>>, <<" ">>}, trail \in {<<>>, <<" ">>},
        case \in {"lower", "upper", "capitalized"},
        n \in (0..MaxAmount) \cup {FarAmount}, u \in 1..Len(UnitNames), plural \in {<<>>, <<"s">>} }

\* "a <unit> ago" and "an <unit> ago"
ArticleTexts ==
    { [chars |-> Written(lead, case, word \o <<" ">> \o UnitNames[u] \o <<" ">> \o S_ago, trail),
       amount |-> 1, unit |-> u] :
        lead \in {<<>>, <<" ">>}, trail \in {<<>>, <<" ">>},
        case \in {"lower", "upper", "capitalized"},
        word \in {S_a, S_an}, u \in 1..Len(UnitNames) }

RelativeTexts == NumericTexts \cup ArticleTexts

\* texts that are no relative date: the empty text, ISO texts with and without
\* an offset, a text only the fallback parser reads, and texts nothing reads
OtherTexts ==
    { [kind |-> "words", chars |-> <<>>],
      [kind |-> "words", chars |-> S_bogus],
      [kind |-> "words", chars |-> S_a \o <<" ">> \o S_day \o <<"s", " ">> \o S_ago],
      [kind |-> "words", chars |-> S_Jan_15_2024],
      [kind |-> "iso", local |-> 2, zone |-> ""],
      [kind |-> "iso", local |-> 3, zone |-> "+01:00"] }

DateTexts == { [kind |-> "words", chars |-> t.chars] : t \in RelativeTexts } \cup OtherTexts

\* clock readings: the end of a long month, a leap day, the first second of a year
NowValues ==
    { [year |-> 2024, month |-> 3, day |-> 31, second |-> 43200],
      [year |-> 2024, month |-> 2, day |-> 29, second |-> 0],
      [year |-> 2025, month |-> 1, day |-> 1, second |-> 0] }

InitDate ==
    /\ InitNoEval
    /\ InitChecker
    /\ InitNoFilter
    /\ InitNoMain
    /\ InitNoLabel
    /\ since_str \in DateTexts
    /\ now \in NowValues
    /\ parsed = None

\* a call of parse_since_date(since_str)
CallParseSinceDate ==
    /\ parsed = None
    /\ parsed' = Some(ParseSinceDate(since_str, now))
    /\ UNCHANGED <<since_str, now, evalVars, fieldVars, buildVars, filterVars, mainVars, labelVars>>

NextDate == CallParseSinceDate

SpecDate == InitDate /\ [][NextDate]_vars

---------------------------------------------------------------------------
(* main of jira-stale-checker.py                                           *)

\* What print() writes is kept in stdout, one entry per message:
\* [kind |-> "error" | "warning" | "fields" | "results", text |-> ...], the
\* results entry carrying the format and the issues it renders.

Error(text) == [kind |-> "error", text |-> text]
Warning(text) == [kind |-> "warning", text |-> text]

\* print(f"Warning: Could not fetch field mapping: {e}") in the except branch
FetchWarnings(answer) ==
    IF answer.ok THEN <<>> ELSE <<Warning("Could not fetch field mapping")>>

\* the two print() calls under "if invalid_fields:"
ResolveWarnings(invalid) ==
    IF invalid = <<>>
    THEN <<>>
    ELSE <<Warning("Could not resolve the following fields"),
           Warning("Available custom fields can be listed")>>

\* bool(args.since): the option was given and is not the empty string
Given(option) == option # None /\ ~(option[1].kind = "words" /\ option[1].chars = <<>>)

\* mutant: a date that cannot be parsed is reported and then left out
ParseArgumentKeepsGoing(name, option, clock) ==
    IF ~Given(option)
    THEN [exit |-> FALSE, printed |-> <<>>, date |-> None]
    ELSE LET r == ParseSinceDate(option[1], clock)
         IN  IF r.ok
             THEN [exit |-> FALSE, printed |-> <<>>, date |-> Some(r.value)]
             ELSE [exit |-> FALSE, printed |-> <<Error(<<"Error parsing date", name>>)>>, date |-> None]

\* "if args.since: try: since_date = parse_since_date(args.since) except
\* ValueError: print(...); sys.exit(1)", and the same for --before. An
\* exception that is no ValueError reaches the except branch at the end of
\* main, which prints and exits with 1 as well.
ParseArgument(name, option, clock) ==
    IF ~Given(option)
    THEN [exit |-> FALSE, printed |-> <<>>, date |-> None]
    ELSE LET r == ParseSinceDate(option[1], clock)
         IN  IF r.ok
             THEN [exit |-> FALSE, printed |-> <<>>, date |-> Some(r.value)]
             ELSE IF r.error = "ValueError"
             THEN [exit |-> TRUE, printed |-> <<Error(<<"Error parsing date", name>>)>>, date |-> None]
             ELSE [exit |-> TRUE, printed |-> <<Error("Error")>>, date |-> None]

\* json.dumps / _output_csv / _output_table of the issues
Output(format, issues) == [kind |-> "results", text |-> format, issues |-> issues]

---------------------------------------------------------------------------
(* Inputs of main                                                          *)

\* --since and --before: absent, ISO texts with and without an offset, a text
\* nothing reads and a relative date before year 1
MainDateOptions ==
    { None,
      Some([kind |-> "iso", local |-> 2, zone |-> "+00:00"]),
      Some([kind |-> "iso", local |-> 3, zone |-> ""]),
      Some([kind |-> "words", chars |-> S_bogus]),
      Some([kind |-> "words",
            chars |-> Decimal(FarAmount) \o <<" ">> \o S_day \o <<"s", " ">> \o S_ago]) }

MainArgs ==
    [ url_token : BOOLEAN,
      list_fields : BOOLEAN,
      since : MainDateOptions,
      before : MainDateOptions,
      format : {"json", "csv", "table"} ]

\* the --exclude-field lists of main
MainExcludeFields == { <<>>, <<S_SP, S_bogus>> }

\* what jira.search_issues() may answer to main: issues, or an exception
MainSearchAnswers ==
    { [ok |-> TRUE, issues |-> issues] :
        issues \in DistinctSeqs(
            { [key |-> "A", created |-> [local |-> 1, zone |-> "Z"], changelog |-> None],
              [key |-> "B", created |-> [local |-> 3, zone |-> "+00:00"], changelog |-> None] },
            MaxIssues) }
        \cup { [ok |-> FALSE, issues |-> <<>>] }

InitMain ==
    /\ InitNoEval
    /\ InitChecker
    /\ InitNoFilter
    /\ InitNoDate
    /\ InitNoLabel
    /\ args \in MainArgs
    /\ pc = "start"
    /\ stdout = <<>>
    /\ exit_status = None

\* lines 409-425: the url and the token are required, then the checker is
\* constructed, which connects to the tracker and may raise
MainStart ==
    /\ pc = "start"
    /\ IF ~args.url_token
       THEN /\ stdout' = stdout \o <<Error("JIRA URL and personal access token must be provided"),
                                     Error("Environment variables: JIRA_URL, JIRA_TOKEN")>>
            /\ pc' = "exited"
            /\ exit_status' = Some(1)
       ELSE \E connects \in BOOLEAN :
               IF connects
               THEN /\ pc' = "connected"
                    /\ UNCHANGED <<stdout, exit_status>>
               ELSE /\ stdout' = stdout \o <<Error("Error")>>
                    /\ pc' = "exited"
                    /\ exit_status' = Some(1)
    /\ UNCHANGED <<args, evalVars, fieldVars, buildVars, filterVars, dateVars, labelVars>>

\* lines 428-431: _list_available_fields(checker); sys.exit(0)
MainListFields ==
    /\ pc = "connected"
    /\ args.list_fields
    /\ GetFieldMapping(BuildFieldsAnswers)
    /\ stdout' = stdout \o FetchWarnings(catalog'[1])
                        \o <<[kind |-> "fields",
                              text |-> IF field_mapping'[1] = EmptyDict
                                       THEN "No fields found"
                                       ELSE "Available JIRA Fields"]>>
    /\ pc' = "exited"
    /\ exit_status' = Some(0)
    /\ UNCHANGED <<args, requested, resolved_fields, invalid_fields, evalVars, buildVars,
                   filterVars, dateVars, labelVars>>

\* line 438: get_issues_with_history, the whole call. The names are resolved
\* (and the warnings printed) before the search; an exception of the search
\* reaches the except branch at the end of main.
MainGetIssues ==
    /\ pc = "connected"
    /\ ~args.list_fields
    /\ GetFieldMapping(BuildFieldsAnswers)
    /\ \E names \in MainExcludeFields, users \in ExcludeUserLists, answer \in MainSearchAnswers :
          LET out == ResolveFieldIdentifiers(names, field_mapping'[1])
              warnings == FetchWarnings(catalog'[1]) \o ResolveWarnings(out.invalid)
          IN  /\ requested' = Some(names)
              /\ resolved_fields' = out.resolved
              /\ invalid_fields' = out.invalid
              /\ IF answer.ok
                 THEN /\ exclude_fields' = out.resolved
                      /\ exclude_users' = users
                      /\ search' = Some(answer.issues)
                      /\ results' = SortDescending(SnapshotsOf(answer.issues, out.resolved, users))
                      /\ stdout' = stdout \o warnings
                      /\ pc' = "fetched"
                      /\ exit_status' = exit_status
                 ELSE /\ UNCHANGED <<exclude_fields, exclude_users, search, results>>
                      /\ stdout' = stdout \o warnings \o <<Error("Error")>>
                      /\ pc' = "exited"
                      /\ exit_status' = Some(1)
    /\ UNCHANGED <<args, issue, last_meaningful_update, filterVars, dateVars, labelVars>>

\* lines 444-450: --since
MainParseSince ==
    /\ pc = "fetched"
    /\ LET r == ParseArgument("--since", args.since, now)
       IN  /\ stdout' = stdout \o r.printed
           /\ since_date' = r.date
           /\ IF r.exit
              THEN pc' = "exited" /\ exit_status' = Some(1)
              ELSE pc' = "since_parsed" /\ exit_status' = exit_status
    /\ UNCHANGED <<args, snapshots, before_date, filtered, evalVars, fieldVars, buildVars,
                   dateVars, labelVars>>

\* lines 452-458: --before
MainParseBefore ==
    /\ pc = "since_parsed"
    /\ LET r == ParseArgument("--before", args.before, now)
       IN  /\ stdout' = stdout \o r.printed
           /\ before_date' = r.date
           /\ IF r.exit
              THEN pc' = "exited" /\ exit_status' = Some(1)
              ELSE pc' = "parsed" /\ exit_status' = exit_status
    /\ UNCHANGED <<args, snapshots, since_date, filtered, evalVars, fieldVars, buildVars,
                   dateVars, labelVars>>

\* lines 461-462: the range filter, when a bound was given
MainFilter ==
    /\ pc = "parsed"
    /\ IF since_date # None \/ before_date # None
       THEN /\ snapshots' = results
            /\ filtered' = Some(FilterIssuesByDateRange(results, since_date, before_date))
       ELSE UNCHANGED <<snapshots, filtered>>
    /\ pc' = "filtered"
    /\ UNCHANGED <<args, stdout, exit_status, since_date, before_date, evalVars, fieldVars,
                   buildVars, dateVars, labelVars>>

\* lines 465-471: the issues are printed in the chosen format and main returns
MainOutput ==
    /\ pc = "filtered"
    /\ stdout' = stdout \o <<Output(args.format, IF filtered # None THEN filtered[1] ELSE results)>>
    /\ pc' = "exited"
    /\ exit_status' = Some(0)
    /\ UNCHANGED <<args, evalVars, fieldVars, buildVars, filterVars, dateVars, labelVars>>

NextMain ==
    \/ MainStart
    \/ MainListFields
    \/ MainGetIssues
    \/ MainParseSince
    \/ MainParseBefore
    \/ MainFilter
    \/ MainOutput

SpecMain == InitMain /\ [][NextMain]_vars

---------------------------------------------------------------------------
(* add_label_to_issue of jira-add-label.py                                 *)

\* Each run of the script is a process of its own; the runs share the issue
\* on the tracker. A run talks to the tracker twice: jira.issue() reads the
\* issue and issue.update() writes the labels field.

\* the runs of the script on one issue
Runs == {1, 2}

MaxLabels == 2

LabelNames == {"stale", "triaged", "wontfix"}

\* issue.fields.labels or []  (None and the empty list are both <<>>)
CurrentLabels(issue_labels) == IF issue_labels = None THEN <<>> ELSE issue_labels

\* new_labels = current_labels + [label]
NewLabels(read, label) == read \o <<label>>

InitLabel ==
    /\ InitNoEval
    /\ InitChecker
    /\ InitNoFilter
    /\ InitNoDate
    /\ InitNoMain
    /\ labels \in DistinctSeqs(LabelNames, MaxLabels)
    /\ initial_labels = labels
    /\ run_label \in [Runs -> LabelNames]
    /\ label_pc = [r \in Runs |-> "start"]
    /\ current_labels = [r \in Runs |-> <<>>]

\* lines 31-42: connect, read the issue, and return when the label is there;
\* an exception is reported and the run exits with 1
ReadIssue(r) ==
    /\ label_pc[r] = "start"
    /\ \E answered \in BOOLEAN :
          IF answered
          THEN /\ current_labels' = [current_labels EXCEPT ![r] = CurrentLabels(labels)]
               /\ label_pc' = [label_pc EXCEPT ![r] =
                                  IF InList(run_label[r], CurrentLabels(labels))
                                  THEN "exists"
                                  ELSE "read"]
          ELSE /\ label_pc' = [label_pc EXCEPT ![r] = "failed"]
               /\ UNCHANGED current_labels
    /\ UNCHANGED <<labels, initial_labels, run_label>>
    /\ UNCHANGED <<evalVars, fieldVars, buildVars, filterVars, dateVars, mainVars>>

\* lines 45-50: write the labels read plus the new one and report success; an
\* exception is reported and the run exits with 1
UpdateIssue(r) ==
    /\ label_pc[r] = "read"
    /\ \E answered \in BOOLEAN :
          IF answered
          THEN /\ labels' = NewLabels(current_labels[r], run_label[r])
               /\ label_pc' = [label_pc EXCEPT ![r] = "added"]
          ELSE /\ label_pc' = [label_pc EXCEPT ![r] = "failed"]
               /\ UNCHANGED labels
    /\ UNCHANGED <<initial_labels, run_label, current_labels>>
    /\ UNCHANGED <<evalVars, fieldVars, buildVars, filterVars, dateVars, mainVars>>

NextLabel == \E r \in Runs : ReadIssue(r) \/ UpdateIssue(r)

SpecLabel == InitLabel /\ [][NextLabel]_vars

---------------------------------------------------------------------------
(* Claims about _get_last_meaningful_update (checked under SpecEval)       *)

\* the instant a timestamp text denotes ("Z" is UTC)
TextInstant(text) == text.local - (IF text.zone = "Z" THEN 0 ELSE UtcOffset(text.zone))

\* the text of the same wall-clock time and zone, with "Z" written "+00:00"
NormalText(text) ==
    [local |-> text.local, zone |-> IF text.zone = "Z" THEN "+00:00" ELSE text.zone]

HistoriesOf(iss) == IF iss.changelog = None THEN <<>> ELSE iss.changelog[1].histories

WithHistories(iss, hs) == [iss EXCEPT !.changelog = Some([histories |-> hs])]

ListElems(xs) == { xs[i] : i \in 1..Len(xs) }

UserIsExcluded(h, users) == ChangeAuthor(h.author) \in ListElems(users)

TouchesOtherField(h, fields) ==
    \E k \in 1..Len(h.items) : h.items[k].field \notin ListElems(fields)

\* a history entry that counts: author not excluded, some field not excluded
Qualifies(h, fields, users) ==
    ~UserIsExcluded(h, users) /\ TouchesOtherField(h, fields)

QualifyingInstants(iss, fields, users) ==
    {TextInstant(iss.created)} \cup
    { TextInstant(HistoriesOf(iss)[i].created) :
        i \in { j \in 1..Len(HistoriesOf(iss)) : Qualifies(HistoriesOf(iss)[j], fields, users) } }

MaxOf(S) == CHOOSE m \in S : \A x \in S : x <= m

Orderings(n) == { p \in [1..n -> 1..n] : \A i, j \in 1..n : p[i] = p[j] => i = j }

RemoveAt(xs, i) == SubSeq(xs, 1, i - 1) \o SubSeq(xs, i + 1, Len(xs))

Evaluated == last_meaningful_update # None

Result == last_meaningful_update[1]

\* C1: the result is the maximum, as an instant, of the creation timestamp and
\* the timestamps of the qualifying history entries; every permutation of the
\* history gives the same instant; with an empty history it is the creation
\* timestamp.
C1_MaxOverQualifying ==
    Evaluated =>
        LET hs == HistoriesOf(issue)
        IN  /\ TextInstant(Result) =
                   MaxOf(QualifyingInstants(issue, exclude_fields, exclude_users))
            /\ \A p \in Orderings(Len(hs)) :
                   TextInstant(GetLastMeaningfulUpdate(
                       WithHistories(issue, [i \in 1..Len(hs) |-> hs[p[i]]]),
                       exclude_fields, exclude_users)) = TextInstant(Result)
            /\ (hs = <<>> => Result = NormalText(issue.created))

\* C1 witness: two qualifying entries, the first later than the last and later
\* than the creation, so the maximum is not the last qualifying entry.
C1_Witness ==
    /\ Evaluated
    /\ Len(HistoriesOf(issue)) = 2
    /\ Qualifies(HistoriesOf(issue)[1], exclude_fields, exclude_users)
    /\ Qualifies(HistoriesOf(issue)[2], exclude_fields, exclude_users)
    /\ TextInstant(HistoriesOf(issue)[1].created) > TextInstant(HistoriesOf(issue)[2].created)
    /\ TextInstant(HistoriesOf(issue)[1].created) > TextInstant(issue.created)
    /\ Result = NormalText(HistoriesOf(issue)[1].created)

\* C2: an entry by an excluded user is ignored entirely: the result with the
\* entry is the result without it, whatever its position, timestamp and fields
\* (every history with and without the entry is an input, so this is adding as
\* well as removing); and when every entry touching a non-excluded field is by
\* an excluded user the result is the creation timestamp.
C2_ExcludedUserIgnored ==
    Evaluated =>
        LET hs == HistoriesOf(issue)
        IN  /\ \A i \in 1..Len(hs) :
                   UserIsExcluded(hs[i], exclude_users) =>
                       GetLastMeaningfulUpdate(WithHistories(issue, RemoveAt(hs, i)),
                                               exclude_fields, exclude_users) = Result
            /\ (\A i \in 1..Len(hs) :
                    TouchesOtherField(hs[i], exclude_fields) => UserIsExcluded(hs[i], exclude_users))
               => Result = NormalText(issue.created)

\* C2 witness: an entry by an excluded user touches a non-excluded field and is
\* later than the result.
C2_Witness ==
    /\ Evaluated
    /\ \E i \in 1..Len(HistoriesOf(issue)) :
          /\ UserIsExcluded(HistoriesOf(issue)[i], exclude_users)
          /\ TouchesOtherField(HistoriesOf(issue)[i], exclude_fields)
          /\ TextInstant(HistoriesOf(issue)[i].created) > TextInstant(Result)

OnlyExcludedFields(h, fields) ==
    \A k \in 1..Len(h.items) : h.items[k].field \in ListElems(fields)

\* C3: an entry all of whose items name excluded fields (or that has no item)
\* never changes the result, whatever its timestamp and position: the result
\* with the entry is the result without it.
C3_ExcludedFieldsOnlyIgnored ==
    Evaluated =>
        LET hs == HistoriesOf(issue)
        IN  \A i \in 1..Len(hs) :
                OnlyExcludedFields(hs[i], exclude_fields) =>
                    GetLastMeaningfulUpdate(WithHistories(issue, RemoveAt(hs, i)),
                                            exclude_fields, exclude_users) = Result

\* C3 witness: the history holds an entry with no item and an entry with only
\* excluded fields, both by users that are not excluded and both later than the
\* result, the second one being the last entry.
C3_Witness ==
    /\ Evaluated
    /\ Len(HistoriesOf(issue)) = 2
    /\ HistoriesOf(issue)[1].items = <<>>
    /\ HistoriesOf(issue)[2].items # <<>>
    /\ OnlyExcludedFields(HistoriesOf(issue)[2], exclude_fields)
    /\ \A i \in 1..2 :
          /\ ~UserIsExcluded(HistoriesOf(issue)[i], exclude_users)
          /\ TextInstant(HistoriesOf(issue)[i].created) > TextInstant(Result)

\* C4: appending a qualifying entry later than the current result gives that
\* entry's timestamp, which is not earlier than the previous result; and the
\* result is never earlier than the creation timestamp.
C4_Monotonic ==
    Evaluated =>
        /\ TextInstant(Result) >= TextInstant(issue.created)
        /\ \A e \in Histories :
               (Qualifies(e, exclude_fields, exclude_users)
                   /\ TextInstant(e.created) > TextInstant(Result)) =>
                   LET next == GetLastMeaningfulUpdate(
                                   WithHistories(issue, Append(HistoriesOf(issue), e)),
                                   exclude_fields, exclude_users)
                   IN  /\ TextInstant(next) >= TextInstant(Result)
                       /\ next = NormalText(e.created)

\* C4 witness: the result already comes from a history entry, and a later
\* qualifying entry exists to append.
C4_Witness ==
    /\ Evaluated
    /\ TextInstant(Result) > TextInstant(issue.created)
    /\ \E e \in Histories :
          /\ Qualifies(e, exclude_fields, exclude_users)
          /\ TextInstant(e.created) > TextInstant(Result)

---------------------------------------------------------------------------
(* Claims about the field resolver (checked under SpecFields)              *)

Mapping == field_mapping[1]

Resolved == requested # None

\* what each of the four rules gives for a name, None when it does not match
RuleResults(name, m) ==
    << IF name \in DOMAIN m THEN Some(m[name]) ELSE None,
       IF Lower(name) \in DOMAIN m THEN Some(m[Lower(name)]) ELSE None,
       IF StartsWith(name, CustomFieldPrefix) THEN Some(name) ELSE None,
       IF \E kv \in StandardFields : kv[1] = Lower(name)
       THEN Some((CHOOSE kv \in StandardFields : kv[1] = Lower(name))[2])
       ELSE None >>

Matching(name, m) == { r \in 1..4 : RuleResults(name, m)[r] # None }

Resolvable(name, m) == Matching(name, m) # {}

\* the result of the first rule that matches, None when none does
FirstMatch(name, m) ==
    LET rr == RuleResults(name, m)
    IN  IF rr[1] # None THEN rr[1]
        ELSE IF rr[2] # None THEN rr[2]
        ELSE IF rr[3] # None THEN rr[3]
        ELSE rr[4]

IsSome(x) == x # None

Unwrap(xs) == [i \in 1..Len(xs) |-> xs[i][1]]

MatchesNoRule(name) == FirstMatch(name, Mapping) = None

\* C5: each name is resolved on its own by the first matching rule, in the
\* order exact key, lowercased key, custom-field prefix, standard alias; the
\* names matching no rule are reported and the others' identifiers are returned
\* in input order.
C5_FirstMatchInOrder ==
    Resolved =>
        LET names == requested[1]
            firsts == [i \in 1..Len(names) |-> FirstMatch(names[i], Mapping)]
        IN  /\ resolved_fields = Unwrap(SelectSeq(firsts, IsSome))
            /\ invalid_fields = SelectSeq(names, MatchesNoRule)

\* C5 witness: an unresolved name is followed by a name for which the exact and
\* the lowercased key give different identifiers; the exact one is returned.
C5_Witness ==
    /\ Resolved
    /\ Len(requested[1]) = 2
    /\ ~Resolvable(requested[1][1], Mapping)
    /\ Matching(requested[1][2], Mapping) = {1, 2}
    /\ RuleResults(requested[1][2], Mapping)[1] # RuleResults(requested[1][2], Mapping)[2]
    /\ resolved_fields = <<Mapping[requested[1][2]]>>
    /\ invalid_fields = <<requested[1][1]>>

Fetched == catalog # None /\ catalog[1].ok

CatalogOf == catalog[1].fields

IsCustom(id) == StartsWith(id, CustomFieldPrefix)

\* the spellings of a field: display name, lowercased display name and, for a
\* custom field, its identifier
Spellings(f) == {f.name, Lower(f.name)} \cup (IF IsCustom(f.id) THEN {f.id} ELSE {})

ResolvesTo(name, id) ==
    ResolveFieldIdentifiers(<<name>>, Mapping).resolved = <<id>>

\* C6 as claimed: in every catalog, every spelling of every field resolves to
\* that field's identifier.
C6_RoundTripEveryCatalog ==
    Fetched =>
        \A i \in 1..Len(CatalogOf) : \A name \in Spellings(CatalogOf[i]) :
            ResolvesTo(name, CatalogOf[i].id)

\* C6 as amended: every spelling of a field resolves to that field's
\* identifier unless a field listed later in the catalog has one of these
\* spellings too (the mapping keeps the field listed last).
C6_RoundTripLastWins ==
    Fetched =>
        \A i \in 1..Len(CatalogOf) :
            (\A j \in (i + 1)..Len(CatalogOf) :
                 Spellings(CatalogOf[j]) \cap Spellings(CatalogOf[i]) = {})
            => \A name \in Spellings(CatalogOf[i]) : ResolvesTo(name, CatalogOf[i].id)

\* C6 witness: two custom fields share a spelling; the later one's spellings
\* all resolve to it, and a spelling of the earlier one resolves to the later.
C6_Witness ==
    /\ Fetched
    /\ Len(CatalogOf) = 2
    /\ IsCustom(CatalogOf[1].id) /\ IsCustom(CatalogOf[2].id)
    /\ Spellings(CatalogOf[1]) \cap Spellings(CatalogOf[2]) # {}
    /\ \A name \in Spellings(CatalogOf[2]) : ResolvesTo(name, CatalogOf[2].id)
    /\ \E name \in Spellings(CatalogOf[1]) : ResolvesTo(name, CatalogOf[2].id)

\* C7 as claimed: once the mapping is built, every identifier that occurs as a
\* value is a key of the mapping and maps to itself.
C7_CanonicalIsKey ==
    field_mapping # None =>
        \A k \in DOMAIN Mapping :
            Mapping[k] \in DOMAIN Mapping /\ Mapping[Mapping[k]] = Mapping[k]

---------------------------------------------------------------------------
(* Claims about get_issues_with_history (checked under SpecBuild)          *)

Built == search # None

FetchFailed == catalog # None /\ ~catalog[1].ok

\* the snapshot of every fetched issue, evaluated with the given exclusions
EvaluatedWith(fields, users) ==
    { [key |-> search[1][i].key,
       created |-> search[1][i].created,
       last_meaningful_update |-> GetLastMeaningfulUpdate(search[1][i], fields, users)] :
        i \in 1..Len(search[1]) }

ResultsEvaluatedWith(fields, users) ==
    /\ Len(results) = Len(search[1])
    /\ ListElems(results) = EvaluatedWith(fields, users)

\* how a name resolves without any mapping: a name with the custom-field
\* prefix is its own identifier, a standard alias gives its field, no other
\* name resolves
WithoutMapping(name) ==
    IF StartsWith(name, CustomFieldPrefix) THEN Some(name)
    ELSE IF \E kv \in StandardFields : kv[1] = Lower(name)
         THEN Some((CHOOSE kv \in StandardFields : kv[1] = Lower(name))[2])
         ELSE None

\* C8 as claimed: when the catalog fetch fails the mapping is empty, every
\* requested name is reported unresolved, no identifier is returned, and the
\* issues are fetched and evaluated with no field excluded.
C8_FailureLeavesNoExclusion ==
    (Built /\ FetchFailed) =>
        /\ field_mapping = Some(EmptyDict)
        /\ resolved_fields = <<>>
        /\ invalid_fields = requested[1]
        /\ ResultsEvaluatedWith(<<>>, exclude_users)

ResolvesWithoutMapping(name) == WithoutMapping(name) # None

NeedsMapping(name) == WithoutMapping(name) = None

\* C8 as amended: when the catalog fetch fails the mapping is empty and the
\* run goes on; the names with the custom-field prefix and the standard aliases
\* still resolve, every other name is reported unresolved, and the issues are
\* fetched and evaluated with exactly the resolved identifiers excluded.
C8_FailureDegrades ==
    (Built /\ FetchFailed) =>
        LET names == requested[1]
            good == SelectSeq(names, ResolvesWithoutMapping)
        IN  /\ field_mapping = Some(EmptyDict)
            /\ resolved_fields = [i \in 1..Len(good) |-> WithoutMapping(good[i])[1]]
            /\ invalid_fields = SelectSeq(names, NeedsMapping)
            /\ ResultsEvaluatedWith(resolved_fields, exclude_users)

\* C8 witness: the fetch failed after a field had been mapped, a requested name
\* resolved all the same, and an issue's result differs from what it would be
\* with no field excluded.
C8_Witness ==
    /\ Built
    /\ FetchFailed
    /\ catalog[1].fields # <<>>
    /\ resolved_fields # <<>>
    /\ ~ResultsEvaluatedWith(<<>>, exclude_users)

\* the place of a snapshot's issue in the search answer
FetchOrder(snapshot) == CHOOSE i \in 1..Len(search[1]) : search[1][i].key = snapshot.key

\* C9 as claimed: one snapshot per fetched issue, each adjacent pair in
\* descending order of the instant of last_meaningful_update, snapshots with
\* equal last_meaningful_update in fetch order.
C9_SortedByInstant ==
    Built =>
        /\ Len(results) = Len(search[1])
        /\ \A i \in 1..Len(search[1]) :
               Cardinality({ j \in 1..Len(results) : results[j].key = search[1][i].key }) = 1
        /\ \A j \in 1..(Len(results) - 1) :
               TextInstant(results[j].last_meaningful_update) >=
                   TextInstant(results[j + 1].last_meaningful_update)
        /\ \A j, k \in 1..Len(results) :
               (j < k /\ results[j].last_meaningful_update = results[k].last_meaningful_update)
                   => FetchOrder(results[j]) < FetchOrder(results[k])

---------------------------------------------------------------------------
(* Claims about filter_issues_by_date_range (checked under SpecFilter)     *)

Filtered == filtered # None

\* the snapshots the two inclusive bounds keep
Kept ==
    { i \in 1..Len(snapshots) :
        /\ (since_date = None \/
              TextInstant(snapshots[i].last_meaningful_update) >= Instant(since_date[1]))
        /\ (before_date = None \/
              TextInstant(snapshots[i].last_meaningful_update) <= Instant(before_date[1])) }

\* C10: the result is the subsequence of the input, in input order, of the
\* snapshots with since <= last_meaningful_update <= before, an absent bound
\* not constraining; both bounds are inclusive.
C10_InclusiveRange ==
    Filtered =>
        /\ Len(filtered[1]) = Cardinality(Kept)
        /\ \A i \in Kept : filtered[1][Cardinality({ j \in Kept : j <= i })] = snapshots[i]

\* C10 witness: both bounds given; a snapshot at the since instant and one at
\* the before instant are kept, a snapshot outside the range is dropped.
C10_Witness ==
    /\ Filtered
    /\ since_date # None /\ before_date # None
    /\ Instant(since_date[1]) < Instant(before_date[1])
    /\ Len(filtered[1]) < Len(snapshots)
    /\ \E i \in Kept :
          TextInstant(snapshots[i].last_meaningful_update) = Instant(since_date[1])
    /\ \E i \in Kept :
          TextInstant(snapshots[i].last_meaningful_update) = Instant(before_date[1])

\* C11: with neither bound the input is returned unchanged, and filtering the
\* filtered list again with the same bounds returns the same list.
C11_PassThroughAndIdempotent ==
    Filtered =>
        /\ ((since_date = None /\ before_date = None) => filtered[1] = snapshots)
        /\ FilterIssuesByDateRange(filtered[1], since_date, before_date) = filtered[1]

\* C11 witness: a bound is given, a snapshot was dropped and two were kept.
C11_Witness ==
    /\ Filtered
    /\ since_date # None
    /\ Len(filtered[1]) = 2
    /\ Len(snapshots) = 3
    /\ filtered[1][1] # filtered[1][2]

---------------------------------------------------------------------------
(* Claims about the cache of _get_field_mapping (checked under SpecFields) *)

\* C15: the catalog is fetched at most once. A call made while no mapping is
\* stored fetches and stores one, also when the fetch fails; every call made
\* afterwards fetches nothing and leaves the stored mapping as it is.
C15_FetchedAtMostOnce ==
    /\ [](fetches <= 1)
    /\ [][ /\ (field_mapping = None => (fetches' = 1 /\ field_mapping' # None))
           /\ (field_mapping # None =>
                  (fetches' = fetches /\ field_mapping' = field_mapping)) ]_vars

\* C15 witness: the fetch failed, and both a list-fields call and a resolve
\* call have been made on the checker.
C15_Witness ==
    /\ fetches = 1
    /\ FetchFailed
    /\ field_mapping = Some(EmptyDict)
    /\ requested # None
    /\ Len(requested[1]) = 2

---------------------------------------------------------------------------
(* Claims about custom-field identifiers (checked under SpecFields)        *)

\* the recognized prefix followed by one or more digits
PrefixThenDigits(name) ==
    /\ StartsWith(name, CustomFieldPrefix)
    /\ Len(name) > Len(CustomFieldPrefix)
    /\ \A i \in (Len(CustomFieldPrefix) + 1)..Len(name) : name[i] \in Digits

NotAKey(name) == name \notin DOMAIN Mapping /\ Lower(name) \notin DOMAIN Mapping

\* C16: a requested name that is no key of the mapping is returned verbatim by
\* the custom-field rule only when digits follow the prefix; with an empty or
\* non-digit suffix it is reported as unresolved unless the alias table has it.
C16_DigitsRequired ==
    Resolved =>
        \A i \in 1..Len(requested[1]) :
            LET name == requested[1][i]
            IN  (/\ NotAKey(name)
                 /\ StartsWith(name, CustomFieldPrefix)
                 /\ ~PrefixThenDigits(name)
                 /\ ~InStandardFields(Lower(name)))
                    => (InList(name, invalid_fields) /\ ~InList(name, resolved_fields))

---------------------------------------------------------------------------
(* Claims about parse_since_date (checked under SpecDate)                  *)

Parsed == parsed # None

Outcome == parsed[1]

\* the relative texts that spell since_str
Spelling == { t \in RelativeTexts : since_str.kind = "words" /\ t.chars = since_str.chars }

\* seconds in a second, a minute, an hour and a day (units 1 to 4)
UnitSeconds(u) == <<1, 60, 3600, 86400>>[u]

SameOrLastDay(day, year, month) ==
    IF day < DaysInMonth(year, month) THEN day ELSE DaysInMonth(year, month)

\* dt lies the given number of units before the clock reading: for seconds to
\* days the elapsed time counted in that unit is the amount, a week is 7 days,
\* and months and years are taken off the calendar fields, the day moved to the
\* last day of the month when the month is shorter
IsBefore(dt, amount, u) ==
    LET days == toordinal(now) - toordinal(dt)
        secs == now.second - dt.second
    IN  /\ dt.second \in 0..86399
        /\ CASE u \in 1..4 ->
                  /\ secs % UnitSeconds(u) = 0
                  /\ days * (86400 \div UnitSeconds(u)) + secs \div UnitSeconds(u) = amount
             [] u = 5 -> days = 7 * amount /\ secs = 0
             [] u = 6 ->
                  LET m == now.year * 12 + (now.month - 1) - amount
                  IN  /\ dt.year = m \div 12
                      /\ dt.month = (m % 12) + 1
                      /\ dt.day = SameOrLastDay(now.day, dt.year, dt.month)
                      /\ secs = 0
             [] u = 7 ->
                  /\ dt.year = now.year - amount
                  /\ dt.month = now.month
                  /\ dt.day = SameOrLastDay(now.day, dt.year, dt.month)
                  /\ secs = 0

\* the datetime the amount of units before the clock reading is not before
\* 0001-01-01
InRange(amount, u) ==
    CASE u \in 1..4 ->
             LET per == 86400 \div UnitSeconds(u)
                 rest == (amount % per) * UnitSeconds(u)
             IN  toordinal(now) - amount \div per - (IF rest > now.second THEN 1 ELSE 0) >= 1
      [] u = 5 -> toordinal(now) - 7 * amount >= 1
      [] u = 6 -> now.year * 12 + (now.month - 1) - amount >= MINYEAR * 12
      [] u = 7 -> now.year - amount >= MINYEAR

\* "1 <unit> ago"
OneUnitAgo(u) ==
    [kind |-> "words", chars |-> Decimal(1) \o <<" ">> \o UnitNames[u] \o <<" ">> \o S_ago]

AgreesWithOne(t) ==
    t \in ArticleTexts => Outcome = ParseSinceDate(OneUnitAgo(t.unit), now)

\* C14 as stated: for every amount N and unit, in any letter case and with
\* whitespace around, "N unit[s] ago" gives the clock reading minus N units,
\* and "a|an unit ago" gives what "1 unit ago" gives.
C14_EveryAmount ==
    Parsed =>
        \A t \in Spelling :
            /\ Outcome.ok
            /\ IsBefore(Outcome.value, t.amount, t.unit)
            /\ AgreesWithOne(t)

\* C14 amended: the same for every amount whose result is not before
\* 0001-01-01, the first day datetime can hold; for a larger amount the call
\* raises.
C14_AmountsInRange ==
    Parsed =>
        \A t \in Spelling :
            /\ IF InRange(t.amount, t.unit)
               THEN Outcome.ok /\ IsBefore(Outcome.value, t.amount, t.unit)
               ELSE ~Outcome.ok
            /\ AgreesWithOne(t)

\* C14 witness: " 2 WEEKS AGO " read on 2024-03-31 12:00:00 gives 2024-03-17
\* 12:00:00.
C14_Witness ==
    /\ Parsed
    /\ since_str = [kind |-> "words",
                    chars |-> Written(<<" ">>, "upper",
                                      Decimal(2) \o <<" ">> \o S_week \o <<"s", " ">> \o S_ago,
                                      <<" ">>)]
    /\ now = [year |-> 2024, month |-> 3, day |-> 31, second |-> 43200]
    /\ Outcome = Returned([year |-> 2024, month |-> 3, day |-> 17, second |-> 43200])

---------------------------------------------------------------------------
(* Claims about main (checked under SpecMain)                              *)

\* the option was given and parse_since_date raises on its text
Unparseable(option) == Given(option) /\ ~ParseSinceDate(option[1], now).ok

PrintedResults == \E i \in 1..Len(stdout) : stdout[i].kind = "results"

\* get_issues_with_history has returned: the issues were searched and results
\* is the sorted list of their snapshots
IssuesComplete ==
    /\ search # None
    /\ results = SortDescending(SnapshotsOf(search[1], resolved_fields, exclude_users))

C13_ResultStreamOnlyResults ==
    PrintedResults => \A i \in 1..Len(stdout) : stdout[i].kind = "results"

---------------------------------------------------------------------------
(* Claims about add_label_to_issue (checked under SpecLabel)               *)

\* C17: after two runs with different labels have both reported success, the
\* issue carries both labels and every label it had before the runs.
C17_NoLabelLost ==
    ( /\ \A r \in Runs : label_pc[r] = "added"
      /\ run_label[1] # run_label[2] )
        => /\ \A r \in Runs : InList(run_label[r], labels)
           /\ \A i \in 1..Len(initial_labels) : InList(initial_labels[i], labels)

=============================================================================
